---- MODULE Spec2Model ----
(***************************************************************************)
(* Model of synapse/config/database.py: DatabaseConnectionConfig           *)
(* (validation and normalisation of one database's connection config, the  *)
(* lazily created connection pool, bare connections) and DatabaseConfig    *)
(* (read_config, read_arguments, set_databasepath,                         *)
(* generate_config_section).                                               *)
(*                                                                         *)
(* Python dicts are functions whose DOMAIN is the set of keys present.     *)
(* Keys of the "args" dict are sequences of characters, so that            *)
(* str.startswith is computed; paths are sequences of path tokens, "/"     *)
(* being the separator token, so that os.path.join and absolute-path       *)
(* resolution are computed.                                                *)
(***************************************************************************)
EXTENDS Integers, Sequences, FiniteSets, TLC

(***************************************************************************)
(* Bounds of the model.                                                    *)
(***************************************************************************)
NumCallers == 2
NumReactors == 2

Callers == 1..NumCallers
Reactors == 1..NumReactors

(***************************************************************************)
(* Python None, one per type it stands in for.                             *)
(***************************************************************************)
None == 0
NoPath == <<"None">>
NoName == "None"

(***************************************************************************)
(* Keys of the args dict, as character sequences.                          *)
(***************************************************************************)
K_cp_min == <<"c","p","_","m","i","n">>
K_cp_max == <<"c","p","_","m","a","x">>
K_check_same_thread == <<"c","h","e","c","k","_","s","a","m","e","_","t","h","r","e","a","d">>
K_cp_openfun == <<"c","p","_","o","p","e","n","f","u","n">>
K_cp_reconnect == <<"c","p","_","r","e","c","o","n","n","e","c","t">>
K_database == <<"d","a","t","a","b","a","s","e">>
CP_PREFIX == <<"c","p","_">>

(***************************************************************************)
(* str.startswith                                                          *)
(***************************************************************************)
StartsWith(k, prefix) ==
    /\ Len(k) >= Len(prefix)
    /\ SubSeq(k, 1, Len(prefix)) = prefix

(***************************************************************************)
(* dict operations                                                         *)
(***************************************************************************)
EmptyDict == << >>

DictUpdate(d, u) ==
    [k \in DOMAIN d \cup DOMAIN u |-> IF k \in DOMAIN u THEN u[k] ELSE d[k]]

DictSet(d, k, v) ==
    [x \in DOMAIN d \cup {k} |-> IF x = k THEN v ELSE d[x]]

DictSetDefault(d, k, v) ==
    IF k \in DOMAIN d THEN d ELSE DictSet(d, k, v)

\* d.get("name", None)
GetName(d) ==
    IF "name" \in DOMAIN d THEN d["name"] ELSE NoName

\* d.get("args", {})
GetArgs(d) ==
    IF "args" \in DOMAIN d THEN d["args"] ELSE EmptyDict

(***************************************************************************)
(* Paths                                                                   *)
(***************************************************************************)
SEP == "/"
MEMORY == <<":memory:">>
HOMESERVER_DB == <<"homeserver.db">>
BaseDir == <<SEP, "srv">>

IsAbs(p) == Len(p) > 0 /\ p[1] = SEP

\* os.path.join(a, b) for two components
PathJoin(a, b) ==
    IF IsAbs(b) THEN b
    ELSE IF Len(a) = 0 \/ a[Len(a)] = SEP THEN a \o b
    ELSE a \o <<SEP>> \o b

\* Config.abspath: None is passed through, anything else is made absolute
\* against the process's base directory.
AbsPath(p) ==
    IF p = NoPath THEN NoPath
    ELSE IF IsAbs(p) THEN p
    ELSE PathJoin(BaseDir, p)

(***************************************************************************)
(* The engine registry: create_engine(db_config).                          *)
(***************************************************************************)
SupportedEngines == {"sqlite3", "psycopg2"}

NoEngine == [module |-> NoName, on_new_connection |-> NoName]

Sqlite3Hook == "Sqlite3Engine.on_new_connection"
PostgresHook == "PostgresEngine.on_new_connection"

create_engine(db_config) ==
    IF db_config["name"] = "sqlite3"
    THEN [module |-> "sqlite3", on_new_connection |-> Sqlite3Hook]
    ELSE [module |-> "psycopg2", on_new_connection |-> PostgresHook]

(***************************************************************************)
(* The pooling defaults forced on sqlite3: the dict literal of             *)
(* {"cp_min": 1, "cp_max": 1, "check_same_thread": False}.                 *)
(***************************************************************************)
SqliteForced ==
    (K_cp_min :> 1) @@ (K_cp_max :> 1) @@ (K_check_same_thread :> FALSE)

\* db_config.setdefault("args", {}).update({...}): the args dict is created
\* when missing and the three keys are overwritten in place.
ForceSqliteDefaults_Keep(db_config) ==
    DictSet(db_config, "args", DictUpdate(SqliteForced, GetArgs(db_config)))

ForceSqliteDefaults(db_config) ==
    DictSet(db_config, "args", DictUpdate(GetArgs(db_config), SqliteForced))

(***************************************************************************)
(* Inputs: the file configuration.                                         *)
(***************************************************************************)
Frag(k, Vs) == {EmptyDict} \cup { k :> v : v \in Vs }

CallerHook == "caller_hook"
FilePath == <<SEP, "data", SEP, "file.db">>
RelPath == <<"rel.db">>
AbsCliPath == <<SEP, "cli", SEP, "cli.db">>

\* The args a caller may supply: pool sizing (none, a minimum, or both), the
\* thread-affinity flag, a hook, another pooling option, a database.
PoolSizings ==
    { EmptyDict, K_cp_min :> 5, (K_cp_min :> 5) @@ (K_cp_max :> 5) }

RawArgs ==
    { a @@ c @@ d @@ e @@ f :
        a \in PoolSizings,
        c \in Frag(K_check_same_thread, {TRUE}),
        d \in Frag(K_cp_openfun, {CallerHook}),
        e \in Frag(K_cp_reconnect, {TRUE}),
        f \in Frag(K_database, {FilePath}) }

EngineNames == {"sqlite3", "psycopg2", "mysql"}

\* The database block of the file: a dict with optional "name" and "args".
DatabaseBlocks ==
    { n @@ a : n \in Frag("name", EngineNames),
               a \in {EmptyDict} \cup { "args" :> x : x \in RawArgs } }

\* The file configuration: optional "database" block, optional top-level
\* "database_path".
FileConfigs ==
    { b @@ p : b \in {EmptyDict} \cup { "database" :> x : x \in DatabaseBlocks },
               p \in Frag("database_path", {RelPath}) }

CliPaths == {NoPath, RelPath, AbsCliPath, MEMORY}
DataDirs == { <<SEP, "var", SEP, "lib", SEP, "app">>, <<SEP, "data", SEP>> }
EntityNames == {"master"}
DataStoreLists == { <<"main">>, <<"main", "state">> }


(***************************************************************************)
(* State.                                                                  *)
(*   config         the file configuration handed to read_config           *)
(*   data_dir_path  the data directory of the process                      *)
(*   db_config      the one dict object that is the file's database block, *)
(*                  DatabaseConfig.database_config after read_config and   *)
(*                  DatabaseConnectionConfig.config after construction     *)
(*   cfg_pc         DatabaseConfig: "new", "read" (read_config returned),  *)
(*                  "args" (read_arguments returned), "failed", or         *)
(*                  "generated" (the run only generated a configuration)   *)
(*   cli_path       the path last given to read_arguments                  *)
(*   error          the exception raised by the last configuration or      *)
(*                  construction step, "none" when it returned             *)
(*   ent_pc         DatabaseConnectionConfig: "none", "live" or "failed"   *)
(*   name, data_stores, engine, _pool   the fields of the entity           *)
(*   pools          every ConnectionPool constructed so far, in order      *)
(*   last_call      the last sequential get_pool call                      *)
(*   pc, call_reactor, tmp, ret   the position, argument, constructed pool *)
(*                  and return value of each concurrent get_pool caller    *)
(*   db_params      the parameters of the last engine.module.connect call  *)
(*   generated      the database block rendered by the last                *)
(*                  generate_config_section                                *)
(*   last_op        the operation that took the last step                  *)
(***************************************************************************)
VARIABLES config, data_dir_path, db_config, cfg_pc, cli_path, error,
          ent_pc, name, data_stores, engine, _pool, pools, last_call,
          pc, call_reactor, tmp, ret, db_params, generated, last_op

inputVars == <<config, data_dir_path>>
cfgVars == <<db_config, cfg_pc, cli_path, error>>
entVars == <<ent_pc, name, data_stores, engine>>
poolVars == <<_pool, pools>>
raceVars == <<pc, call_reactor, tmp, ret>>
vars == <<config, data_dir_path, db_config, cfg_pc, cli_path, error,
          ent_pc, name, data_stores, engine, _pool, pools, last_call,
          pc, call_reactor, tmp, ret, db_params, generated, last_op>>

NoCall == [reactor |-> None, outcome |-> "none", ret |-> None]
NoConnect == [called |-> FALSE, module |-> NoName, params |-> EmptyDict]

InitWith(cfgs) ==
    /\ config \in cfgs
    /\ data_dir_path \in DataDirs
    /\ db_config = IF "database" \in DOMAIN config THEN config["database"]
                   ELSE EmptyDict
    /\ cfg_pc = "new"
    /\ cli_path = NoPath
    /\ error = "none"
    /\ ent_pc = "none"
    /\ name = NoName
    /\ data_stores = << >>
    /\ engine = NoEngine
    /\ _pool = None
    /\ pools = << >>
    /\ last_call = NoCall
    /\ pc = [c \in Callers |-> "idle"]
    /\ call_reactor = [c \in Callers |-> None]
    /\ tmp = [c \in Callers |-> None]
    /\ ret = [c \in Callers |-> None]
    /\ db_params = NoConnect
    /\ generated = EmptyDict
    /\ last_op = "init"

Init == InitWith(FileConfigs)

(***************************************************************************)
(* DatabaseConfig.set_databasepath(database_path), as a function of the    *)
(* dict: the new dict and the exception raised, if any.                    *)
(***************************************************************************)
set_databasepath_AnyEngine(d, database_path) ==
    LET p == IF database_path # MEMORY THEN AbsPath(database_path)
             ELSE database_path
    IN  IF p # NoPath
        THEN IF "args" \in DOMAIN d
             THEN [cfg |-> DictSet(d, "args", DictSet(d["args"], K_database, p)),
                   error |-> "none"]
             ELSE [cfg |-> d, error |-> "KeyError"]
        ELSE [cfg |-> d, error |-> "none"]

set_databasepath(d, database_path) ==
    LET p == IF database_path # MEMORY THEN AbsPath(database_path)
             ELSE database_path
    IN  IF GetName(d) = "sqlite3" /\ p # NoPath
        THEN IF "args" \in DOMAIN d
             THEN [cfg |-> DictSet(d, "args", DictSet(d["args"], K_database, p)),
                   error |-> "none"]
             ELSE [cfg |-> d, error |-> "KeyError"]
        ELSE [cfg |-> d, error |-> "none"]

(***************************************************************************)
(* DatabaseConfig.read_config(config)                                      *)
(***************************************************************************)
ReadConfig ==
    /\ cfg_pc = "new"
    /\ ent_pc = "none"
    /\ LET database_config ==
               IF "database" \in DOMAIN config THEN config["database"]
               ELSE ("name" :> "sqlite3") @@ ("args" :> EmptyDict)
           nm == GetName(database_config)
           database_path ==
               IF "database_path" \in DOMAIN config
               THEN config["database_path"] ELSE NoPath
       IN  IF nm = "psycopg2"
           THEN LET r == set_databasepath(database_config, database_path)
                IN  /\ db_config' = r.cfg
                    /\ error' = r.error
                    /\ cfg_pc' = IF r.error = "none" THEN "read" ELSE "failed"
           ELSE IF nm = "sqlite3"
           THEN LET r == set_databasepath(ForceSqliteDefaults(database_config),
                                          database_path)
                IN  /\ db_config' = r.cfg
                    /\ error' = r.error
                    /\ cfg_pc' = IF r.error = "none" THEN "read" ELSE "failed"
           ELSE /\ db_config' = database_config
                /\ error' = "RuntimeError"
                /\ cfg_pc' = "failed"
    /\ last_op' = "read_config"
    /\ UNCHANGED <<inputVars, cli_path, entVars, poolVars, last_call, raceVars,
                   db_params, generated>>

(***************************************************************************)
(* DatabaseConfig.read_arguments(args) with args.database_path = p         *)
(***************************************************************************)
ReadArguments(p) ==
    /\ cfg_pc = "read"
    /\ LET r == set_databasepath(db_config, p)
       IN  /\ db_config' = r.cfg
           /\ error' = r.error
    /\ cli_path' = p
    /\ cfg_pc' = "args"
    /\ last_op' = "read_arguments"
    /\ UNCHANGED <<inputVars, entVars, poolVars, last_call, raceVars,
                   db_params, generated>>

(***************************************************************************)
(* DatabaseConfig.generate_config_section(data_dir_path, database_conf):   *)
(* the database block that the rendered text denotes.                      *)
(***************************************************************************)
generate_config_section(dir, database_conf) ==
    IF DOMAIN database_conf = {}
    THEN ("name" :> "sqlite3")
         @@ ("args" :> (K_database :> PathJoin(dir, HOMESERVER_DB)))
    ELSE database_conf

GenerateConfigSection ==
    /\ cfg_pc = "new"
    /\ ent_pc = "none"
    /\ generated' = generate_config_section(data_dir_path, db_config)
    /\ cfg_pc' = "generated"
    /\ last_op' = "generate_config_section"
    /\ UNCHANGED <<inputVars, db_config, cli_path, error, entVars, poolVars, last_call, raceVars,
                   db_params>>


(***************************************************************************)
(* DatabaseConnectionConfig.__init__(name, db_config, data_stores).        *)
(* db_config is the dict object itself: what the constructor writes into   *)
(* it is written into the caller's dict, also when a later line raises.    *)
(***************************************************************************)
\* self.config["args"]["cp_openfun"] = self.engine.on_new_connection
BindOpenFun_Default(d, eng) ==
    DictSet(d, "args",
            DictSetDefault(d["args"], K_cp_openfun, eng.on_new_connection))

BindOpenFun(d, eng) ==
    DictSet(d, "args", DictSet(d["args"], K_cp_openfun, eng.on_new_connection))

Construct(n, stores) ==
    /\ ent_pc = "none"
    /\ cfg_pc \in {"read", "args"}
       \/ (cfg_pc = "new" /\ "database" \in DOMAIN config)
    /\ IF "name" \notin DOMAIN db_config
       THEN /\ error' = "KeyError"
            /\ ent_pc' = "failed"
            /\ UNCHANGED <<db_config, name, data_stores, engine>>
       ELSE IF db_config["name"] \notin SupportedEngines
       THEN /\ error' = "ConfigError"
            /\ ent_pc' = "failed"
            /\ UNCHANGED <<db_config, name, data_stores, engine>>
       ELSE LET forced == IF db_config["name"] = "sqlite3"
                          THEN ForceSqliteDefaults(db_config)
                          ELSE db_config
                eng == create_engine(forced)
            IN  /\ name' = n
                /\ data_stores' = stores
                /\ engine' = eng
                /\ IF "args" \in DOMAIN forced
                   THEN /\ db_config' = BindOpenFun(forced, eng)
                        /\ error' = "none"
                        /\ ent_pc' = "live"
                   ELSE /\ db_config' = forced
                        /\ error' = "KeyError"
                        /\ ent_pc' = "failed"
    /\ _pool' = None
    /\ last_op' = "construct"
    /\ UNCHANGED <<inputVars, cfg_pc, cli_path, pools, last_call, raceVars,
                   db_params, generated>>

(***************************************************************************)
(* adbapi.ConnectionPool(self.config["name"], cp_reactor=reactor,          *)
(*                       **self.config.get("args", {}))                    *)
(***************************************************************************)
ConnectionPool(d, reactor) ==
    [dbapiName |-> d["name"], cp_reactor |-> reactor, connkw |-> GetArgs(d)]

(***************************************************************************)
(* DatabaseConnectionConfig.get_pool(reactor), one call after the other:   *)
(* the whole call is one step.  The construction of the pool either        *)
(* returns the pool or raises.                                             *)
(***************************************************************************)
PoolSlotEmpty_Always == TRUE

PoolSlotEmpty == _pool = None

GetPool(reactor) ==
    /\ ent_pc = "live"
    /\ IF PoolSlotEmpty
       THEN \/ /\ pools' = Append(pools, ConnectionPool(db_config, reactor))
               /\ _pool' = Len(pools) + 1
               /\ last_call' = [reactor |-> reactor, outcome |-> "returned",
                                ret |-> Len(pools) + 1]
            \/ /\ last_call' = [reactor |-> reactor, outcome |-> "raised",
                                ret |-> None]
               /\ UNCHANGED poolVars
       ELSE /\ last_call' = [reactor |-> reactor, outcome |-> "returned",
                             ret |-> _pool]
            /\ UNCHANGED poolVars
    /\ last_op' = "get_pool"
    /\ UNCHANGED <<inputVars, cfgVars, entVars, raceVars, db_params, generated>>

(***************************************************************************)
(* DatabaseConnectionConfig.make_conn()                                    *)
(***************************************************************************)
DbParams_ForcedOnly(args) ==
    [k \in {x \in DOMAIN args : x \notin {K_cp_min, K_cp_max}} |-> args[k]]

DbParams(args) ==
    [k \in {x \in DOMAIN args : ~StartsWith(x, CP_PREFIX)} |-> args[k]]

MakeConn_ConsumesPool ==
    /\ ent_pc = "live"
    /\ db_params' = [called |-> TRUE, module |-> engine.module,
                     params |-> DbParams(GetArgs(db_config))]
    /\ _pool' = None
    /\ last_op' = "make_conn"
    /\ UNCHANGED <<inputVars, cfgVars, entVars, pools, last_call, raceVars,
                   generated>>

MakeConn ==
    /\ ent_pc = "live"
    /\ db_params' = [called |-> TRUE, module |-> engine.module,
                     params |-> DbParams(GetArgs(db_config))]
    /\ last_op' = "make_conn"
    /\ UNCHANGED <<inputVars, cfgVars, entVars, poolVars, last_call, raceVars,
                   generated>>

(***************************************************************************)
(* DatabaseConnectionConfig.get_pool(reactor) called by concurrent         *)
(* callers: the test of the slot, the construction of the pool, the        *)
(* assignment to the slot and the read of the slot for the return value    *)
(* are separate steps, and nothing orders the steps of different callers.  *)
(***************************************************************************)
\* if self._pool is None:
GetPoolCheck(c, reactor) ==
    /\ ent_pc = "live"
    /\ pc[c] \in {"idle", "done", "raised"}
    /\ call_reactor' = [call_reactor EXCEPT ![c] = reactor]
    /\ ret' = [ret EXCEPT ![c] = None]
    /\ pc' = [pc EXCEPT ![c] = IF PoolSlotEmpty THEN "construct" ELSE "return"]
    /\ last_op' = "get_pool"
    /\ UNCHANGED <<inputVars, cfgVars, entVars, poolVars, last_call, tmp,
                   db_params, generated>>

\* adbapi.ConnectionPool(...) returns the pool or raises
GetPoolConstruct(c) ==
    /\ pc[c] = "construct"
    /\ \/ /\ pools' = Append(pools, ConnectionPool(db_config, call_reactor[c]))
          /\ tmp' = [tmp EXCEPT ![c] = Len(pools) + 1]
          /\ pc' = [pc EXCEPT ![c] = "assign"]
       \/ /\ pc' = [pc EXCEPT ![c] = "raised"]
          /\ UNCHANGED <<pools, tmp>>
    /\ last_op' = "get_pool"
    /\ UNCHANGED <<inputVars, cfgVars, entVars, _pool, last_call, call_reactor,
                   ret, db_params, generated>>

\* self._pool = <the pool constructed>
GetPoolAssign(c) ==
    /\ pc[c] = "assign"
    /\ _pool' = tmp[c]
    /\ tmp' = [tmp EXCEPT ![c] = None]
    /\ pc' = [pc EXCEPT ![c] = "return"]
    /\ last_op' = "get_pool"
    /\ UNCHANGED <<inputVars, cfgVars, entVars, pools, last_call, call_reactor,
                   ret, db_params, generated>>

\* return self._pool
GetPoolReturn(c) ==
    /\ pc[c] = "return"
    /\ ret' = [ret EXCEPT ![c] = _pool]
    /\ pc' = [pc EXCEPT ![c] = "done"]
    /\ last_op' = "get_pool"
    /\ UNCHANGED <<inputVars, cfgVars, entVars, poolVars, last_call,
                   call_reactor, tmp, db_params, generated>>

Next ==
    \/ ReadConfig
    \/ \E p \in CliPaths : ReadArguments(p)
    \/ GenerateConfigSection
    \/ \E n \in EntityNames, stores \in DataStoreLists : Construct(n, stores)
    \/ \E r \in Reactors : GetPool(r)
    \/ MakeConn

Spec == Init /\ [][Next]_vars


(***************************************************************************)
(* The entity under concurrent get_pool callers.                           *)
(***************************************************************************)
RaceConfigs ==
    { "database" :> (("name" :> "sqlite3")
                     @@ ("args" :> (K_database :> FilePath))),
      "database" :> (("name" :> "psycopg2")
                     @@ ("args" :> ((K_cp_min :> 5) @@ (K_cp_max :> 5)))) }

InitRace == InitWith(RaceConfigs)

NextRace ==
    \/ \E n \in EntityNames, stores \in DataStoreLists : Construct(n, stores)
    \/ \E c \in Callers, r \in Reactors : GetPoolCheck(c, r)
    \/ \E c \in Callers : GetPoolConstruct(c)
    \/ \E c \in Callers : GetPoolAssign(c)
    \/ \E c \in Callers : GetPoolReturn(c)
    \/ MakeConn

SpecRace == InitRace /\ [][NextRace]_vars


(***************************************************************************)
(* Properties.                                                             *)
(***************************************************************************)
\* The args of the database block as the file supplied them.
RawBlock == IF "database" \in DOMAIN config THEN config["database"] ELSE EmptyDict
RawArgsOf == GetArgs(RawBlock)
Args == GetArgs(db_config)
ForcedKeys == {K_cp_min, K_cp_max, K_check_same_thread}
PathSupplied == "database_path" \in DOMAIN config \/ cli_path # NoPath
Normalized == ent_pc = "live" \/ cfg_pc \in {"read", "args"}
HasCpPrefix(k) == Len(k) >= 3 /\ k[1] = "c" /\ k[2] = "p" /\ k[3] = "_"
Done == { c \in Callers : pc[c] = "done" }

\* C1: under every interleaving of the check and create steps of concurrent
\* get_pool callers, at most one pool is ever constructed and every caller
\* returns that same pool.
C1_ExactlyOncePool ==
    /\ Len(pools) <= 1
    /\ \A c1 \in Done, c2 \in Done : ret[c1] = ret[c2]

\* C2: a construction that raises leaves the pool slot as it was, so that a
\* later call constructs again; once one construction has succeeded no
\* further construction ever happens.
C2_FailedConstructionNotPoisoning ==
    [][/\ \A c \in Callers :
             (pc[c] = "construct" /\ pc'[c] = "raised")
                 => (_pool' = _pool /\ pools' = pools)
       /\ (Len(pools) >= 1 => pools' = pools)]_vars

\* C3: over calls made one after the other, the first call that succeeds
\* constructs one pool bound to the reactor of that call, every later call
\* returns that pool whatever reactor it passes and constructs nothing, and
\* a non-None _pool never changes.
C3_GetPoolIdempotent ==
    [][/\ (_pool # None => (_pool' = _pool /\ pools' = pools))
       /\ (last_op' = "get_pool" /\ last_call'.outcome = "returned")
             => /\ _pool' # None
                /\ last_call'.ret = _pool'
                /\ Len(pools') = 1
                /\ (_pool = None
                      => pools'[_pool'].cp_reactor = last_call'.reactor)
       /\ (last_op' = "get_pool" /\ last_call'.outcome = "raised")
             => (_pool' = None /\ pools' = pools)]_vars

C3_Witness ==
    /\ last_op = "get_pool"
    /\ last_call.outcome = "returned"
    /\ _pool # None
    /\ last_call.ret = _pool
    /\ pools[_pool].cp_reactor # last_call.reactor

\* C4 as stated: on sqlite3 the normalized args have cp_min = 1, cp_max = 1,
\* check_same_thread = False and every other caller-supplied arg keeps its
\* value; on psycopg2 none of the three is forced.
C4_AllOtherArgsKept ==
    Normalized =>
        /\ GetName(db_config) = "sqlite3" =>
              /\ \A k \in ForcedKeys : k \in DOMAIN Args /\ Args[k] = SqliteForced[k]
              /\ \A k \in DOMAIN RawArgsOf \ ForcedKeys :
                    k \in DOMAIN Args /\ Args[k] = RawArgsOf[k]
        /\ GetName(db_config) = "psycopg2" =>
              \A k \in ForcedKeys :
                 /\ k \in DOMAIN Args <=> k \in DOMAIN RawArgsOf
                 /\ k \in DOMAIN Args => Args[k] = RawArgsOf[k]

\* C4 amended: as C4, except that cp_openfun keeps the caller's value only
\* until the entity is constructed, and database only when no database path
\* was supplied (database_path of the file, or the command line).
C4_SqliteForcedOthersKept ==
    Normalized =>
        /\ GetName(db_config) = "sqlite3" =>
              /\ \A k \in ForcedKeys : k \in DOMAIN Args /\ Args[k] = SqliteForced[k]
              /\ \A k \in DOMAIN RawArgsOf \ (ForcedKeys \cup {K_cp_openfun, K_database}) :
                    k \in DOMAIN Args /\ Args[k] = RawArgsOf[k]
              /\ (K_cp_openfun \in DOMAIN RawArgsOf /\ ent_pc # "live")
                    => (K_cp_openfun \in DOMAIN Args
                        /\ Args[K_cp_openfun] = RawArgsOf[K_cp_openfun])
              /\ (K_database \in DOMAIN RawArgsOf /\ ~PathSupplied)
                    => (K_database \in DOMAIN Args
                        /\ Args[K_database] = RawArgsOf[K_database])
        /\ GetName(db_config) = "psycopg2" =>
              \A k \in ForcedKeys :
                 /\ k \in DOMAIN Args <=> k \in DOMAIN RawArgsOf
                 /\ k \in DOMAIN Args => Args[k] = RawArgsOf[k]

C4_Witness ==
    /\ ent_pc = "live"
    /\ GetName(db_config) = "sqlite3"
    /\ {K_cp_min, K_cp_max, K_check_same_thread, K_cp_reconnect} \subseteq DOMAIN RawArgsOf
    /\ RawArgsOf[K_cp_min] = 5
    /\ RawArgsOf[K_cp_max] = 5
    /\ Args[K_cp_min] = 1
    /\ Args[K_cp_max] = 1
    /\ Args[K_check_same_thread] = FALSE
    /\ Args[K_cp_reconnect] = TRUE

\* C5: construction with a backend identifier outside {sqlite3, psycopg2}
\* fails with the unsupported-backend error (the ConfigError of the
\* constructor) before an engine is resolved or the pool slot is set up;
\* with either supported identifier construction succeeds.
C5_UnsupportedFailsSupportedSucceeds ==
    (last_op = "construct" /\ "name" \in DOMAIN db_config) =>
        IF db_config["name"] \notin {"sqlite3", "psycopg2"}
        THEN /\ ent_pc = "failed"
             /\ error = "ConfigError"
             /\ engine = NoEngine
             /\ _pool = None
        ELSE ent_pc = "live"

\* C6: the parameters make_conn passes to the driver's connect contain no
\* key that starts with cp_ (cp_min, cp_max, cp_openfun among them) and
\* contain every other arg with its value.
C6_NoPoolingKeysInConnect ==
    last_op = "make_conn" =>
        /\ db_params.called
        /\ \A k \in DOMAIN db_params.params : ~HasCpPrefix(k)
        /\ DOMAIN db_params.params \cap {K_cp_min, K_cp_max, K_cp_openfun} = {}
        /\ \A k \in DOMAIN Args :
              ~HasCpPrefix(k) =>
                  (k \in DOMAIN db_params.params /\ db_params.params[k] = Args[k])

C6_Witness ==
    /\ last_op = "make_conn"
    /\ GetName(db_config) = "sqlite3"
    /\ _pool # None
    /\ cfg_pc = "args"
    /\ cli_path = MEMORY
    /\ K_cp_reconnect \in DOMAIN Args
    /\ K_cp_openfun \in DOMAIN Args
    /\ K_database \in DOMAIN db_params.params
    /\ db_params.params[K_database] = MEMORY
    /\ K_check_same_thread \in DOMAIN db_params.params

\* C7: with no database block in the file and no path override, read_config
\* with data directory D yields one sqlite3 entry whose database argument is
\* D/homeserver.db.
C7_DefaultPathUnderDataDir ==
    (/\ cfg_pc \in {"read", "args"}
     /\ "database" \notin DOMAIN config
     /\ ~PathSupplied)
        => /\ GetName(db_config) = "sqlite3"
           /\ K_database \in DOMAIN Args
           /\ Args[K_database] = data_dir_path \o <<SEP>> \o HOMESERVER_DB

\* C8: read_arguments after read_config with command-line path p: on sqlite3
\* with p given the database argument becomes p made absolute (p itself
\* when it is :memory:) whatever the file provided; on psycopg2 the config is
\* what it was, with no error; with p absent the config is what it was.
C8_CliPathOverride ==
    [][(cfg_pc = "read" /\ cfg_pc' = "args") =>
          LET p == cli_path'
              nm == GetName(db_config)
              newargs == GetArgs(db_config')
          IN  /\ error' = "none"
              /\ GetName(db_config') = nm
              /\ (nm = "sqlite3" /\ p # NoPath) =>
                    /\ K_database \in DOMAIN newargs
                    /\ IF p = MEMORY THEN newargs[K_database] = MEMORY
                       ELSE /\ IsAbs(newargs[K_database])
                            /\ IsAbs(p) => newargs[K_database] = p
                            /\ ~IsAbs(p) =>
                                  newargs[K_database] = BaseDir \o <<SEP>> \o p
                    /\ \A k \in DOMAIN Args \ {K_database} :
                          k \in DOMAIN newargs /\ newargs[k] = Args[k]
              /\ nm = "psycopg2" => db_config' = db_config
              /\ p = NoPath => db_config' = db_config]_vars

C8_Witness ==
    /\ last_op = "read_arguments"
    /\ cfg_pc = "args"
    /\ cli_path = RelPath
    /\ GetName(db_config) = "sqlite3"
    /\ K_database \in DOMAIN RawArgsOf
    /\ RawArgsOf[K_database] = FilePath
    /\ Args[K_database] = BaseDir \o <<SEP>> \o RelPath

\* C9: in every state of a constructed entity args["cp_openfun"] is the
\* on_new_connection hook of the engine of the entity's backend, also when
\* the caller's args had another cp_openfun, and get_pool, make_conn and
\* path overrides leave it so.
C9_OpenFunBoundToEngine ==
    ent_pc = "live" =>
        /\ K_cp_openfun \in DOMAIN Args
        /\ Args[K_cp_openfun] = engine.on_new_connection
        /\ engine.module = db_config["name"]
        /\ db_config["name"] = "sqlite3" => Args[K_cp_openfun] = Sqlite3Hook
        /\ db_config["name"] = "psycopg2" => Args[K_cp_openfun] = PostgresHook

C9_Witness ==
    /\ ent_pc = "live"
    /\ K_cp_openfun \in DOMAIN RawArgsOf
    /\ RawArgsOf[K_cp_openfun] = CallerHook
    /\ Args[K_cp_openfun] = Sqlite3Hook
    /\ last_op = "read_arguments"
    /\ cli_path = AbsCliPath
    /\ _pool # None
    /\ db_params.called

\* C10: construction opens no pool and no connection, only get_pool changes
\* the pool slot, get_pool leaves name, backend, args and data_stores as
\* they were, and make_conn leaves those and the pool slot as they were.
C10_ImmutableExceptPool ==
    [][/\ last_op' = "construct" => (_pool' = None /\ pools' = pools
                                     /\ db_params' = db_params)
       /\ <<_pool, pools>>' # <<_pool, pools>> => last_op' = "get_pool"
       /\ (ent_pc = "live" /\ last_op' = "get_pool")
             => <<name, db_config, data_stores, engine>>'
                    = <<name, db_config, data_stores, engine>>
       /\ (ent_pc = "live" /\ last_op' = "make_conn")
             => /\ <<name, db_config, data_stores, engine>>'
                       = <<name, db_config, data_stores, engine>>
                /\ <<_pool, pools>>' = <<_pool, pools>>]_vars

C10_Witness ==
    /\ last_op = "make_conn"
    /\ ent_pc = "live"
    /\ _pool # None
    /\ db_params.called
    /\ last_call.outcome = "returned"

====
